---- MODULE Spec2Model ----
(***************************************************************************)
(* Model of google_oauth.py: the stage-counted booking conversation        *)
(* (conversational_flow), the date/time parser (parse_date_time), the      *)
(* calendar gateway (authenticate_google, create_event) and the Gradio     *)
(* callbacks (handle_input, reset_conversation).                           *)
(*                                                                         *)
(* Python str values are TLA+ strings; a character is a string of length   *)
(* one, read with SubSeq(s, i, i).  A (role, message) tuple of the history *)
(* list is the pair <<role, message>>.                                     *)
(***************************************************************************)
EXTENDS Integers, Sequences, FiniteSets, TLC

(***************************************************************************)
(* Bounds of the exploration.                                              *)
(***************************************************************************)
\* most User turns of a history that handle_input is explored to
MaxStage == 6
\* most rejected inputs whose re-prompts a history holds
MaxRejections == 1
MaxGatewayCalls == 2

(***************************************************************************)
(* Python str primitives.                                                  *)
(***************************************************************************)
LowerAlpha == "abcdefghijklmnopqrstuvwxyz"
UpperAlpha == "ABCDEFGHIJKLMNOPQRSTUVWXYZ"
DigitChars == "0123456789"
Whitespace == {" ", "\t", "\n", "\r"}

CharAt(s, i) == SubSeq(s, i, i)

\* position of the character c in the string alpha, 0 when absent
IndexIn(c, alpha) ==
    IF \E i \in 1..Len(alpha) : CharAt(alpha, i) = c
    THEN CHOOSE i \in 1..Len(alpha) : CharAt(alpha, i) = c
    ELSE 0

\* the case mappings of the ASCII letters, as functions on characters
LowerMap == [c \in {CharAt(UpperAlpha, i) : i \in 1..Len(UpperAlpha)} |->
                CharAt(LowerAlpha, IndexIn(c, UpperAlpha))]
UpperMap == [c \in {CharAt(LowerAlpha, i) : i \in 1..Len(LowerAlpha)} |->
                CharAt(UpperAlpha, IndexIn(c, LowerAlpha))]
Digits == {CharAt(DigitChars, i) : i \in 1..Len(DigitChars)}

LowerChar(c) == IF c \in DOMAIN LowerMap THEN LowerMap[c] ELSE c
UpperChar(c) == IF c \in DOMAIN UpperMap THEN UpperMap[c] ELSE c

RECURSIVE Lower(_)
\* str.lower()
Lower(s) == IF s = "" THEN "" ELSE LowerChar(CharAt(s, 1)) \o Lower(SubSeq(s, 2, Len(s)))

RECURSIVE Upper(_)
\* str.upper()
Upper(s) == IF s = "" THEN "" ELSE UpperChar(CharAt(s, 1)) \o Upper(SubSeq(s, 2, Len(s)))

RECURSIVE LStrip(_)
LStrip(s) == IF s # "" /\ CharAt(s, 1) \in Whitespace THEN LStrip(SubSeq(s, 2, Len(s))) ELSE s

RECURSIVE RStrip(_)
RStrip(s) == IF s # "" /\ CharAt(s, Len(s)) \in Whitespace THEN RStrip(SubSeq(s, 1, Len(s) - 1)) ELSE s

\* str.strip()
Strip(s) == RStrip(LStrip(s))

\* sub in s
Contains(s, sub) == \E i \in 1..(Len(s) - Len(sub) + 1) : SubSeq(s, i, i + Len(sub) - 1) = sub

RECURSIVE Split(_, _)
\* s.split(sep) for a one-character separator: the list of the fields
Split(s, sep) ==
    IF \E i \in 1..Len(s) : CharAt(s, i) = sep
    THEN LET i == CHOOSE k \in 1..Len(s) :
                     CharAt(s, k) = sep /\ \A j \in 1..(k - 1) : CharAt(s, j) # sep
         IN  <<SubSeq(s, 1, i - 1)>> \o Split(SubSeq(s, i + 1, Len(s)), sep)
    ELSE <<s>>

\* str.isdigit() on the ASCII alphabet: non-empty and all characters digits
IsDigit(s) == s # "" /\ \A i \in 1..Len(s) : CharAt(s, i) \in Digits

(***************************************************************************)
(* int(): Python integers are unbounded; the value is kept exact up to the *)
(* C int maximum and everything above it is the single value TooBig, which *)
(* is all datetime() distinguishes (OverflowError).                        *)
(***************************************************************************)
CIntMax == 2147483647
TooBig == -1
NotInt == -2

RECURSIVE DigitsValue(_, _)
DigitsValue(s, acc) ==
    IF s = "" THEN acc
    ELSE LET d == IndexIn(CharAt(s, 1), DigitChars) - 1
             rest == SubSeq(s, 2, Len(s))
         IN  IF \/ acc = TooBig
                \/ acc > CIntMax \div 10
                \/ (acc = CIntMax \div 10 /\ d > CIntMax % 10)
             THEN DigitsValue(rest, TooBig)
             ELSE DigitsValue(rest, acc * 10 + d)

\* int(tok) for the tokens split('-') can yield: surrounding whitespace and
\* one leading "+" are allowed, the rest must be decimal digits; NotInt
\* stands for the ValueError "invalid literal for int()"
PyInt(tok) ==
    LET t == Strip(tok)
        u == IF t # "" /\ CharAt(t, 1) = "+" THEN SubSeq(t, 2, Len(t)) ELSE t
    IN  IF IsDigit(u) THEN DigitsValue(u, 0) ELSE NotInt

(***************************************************************************)
(* datetime: a timestamp is the tuple <<year, month, day, hour, minute>>.  *)
(* A call that can raise returns a record: exc names the exception class   *)
(* ("none" when it returned), msg is str(e), value is the returned value.  *)
(***************************************************************************)
NoValue == <<>>
Returned(v) == [exc |-> "none", msg |-> "", value |-> v]
Raised(e, m) == [exc |-> e, msg |-> m, value |-> NoValue]

MINYEAR == 1
MAXYEAR == 9999

IsLeap(y) == y % 4 = 0 /\ (y % 100 # 0 \/ y % 400 = 0)
DaysInMonth(y, m) ==
    IF m = 2 THEN (IF IsLeap(y) THEN 29 ELSE 28)
    ELSE IF m \in {4, 6, 9, 11} THEN 30 ELSE 31

RECURSIVE IntToStr(_)
\* str(n) for n >= 0
IntToStr(n) == IF n < 10 THEN CharAt(DigitChars, n + 1)
               ELSE IntToStr(n \div 10) \o CharAt(DigitChars, (n % 10) + 1)

\* a constructor that stores the fields without checking their ranges
PyDatetimeUnchecked(year, month, day, hour, minute) ==
    Returned(<<year, month, day, hour, minute>>)

\* datetime(year, month, day, hour, minute): the arguments are converted to
\* C ints first (OverflowError), then the date fields are range-checked in
\* the order year, month, day (ValueError)
PyDatetime(year, month, day, hour, minute) ==
    IF TooBig \in {year, month, day}
    THEN Raised("OverflowError", "signed integer is greater than maximum")
    ELSE IF year < MINYEAR \/ year > MAXYEAR
    THEN Raised("ValueError", "year " \o IntToStr(year) \o " is out of range")
    ELSE IF month < 1 \/ month > 12
    THEN Raised("ValueError", "month must be in 1..12")
    ELSE IF day < 1 \/ day > DaysInMonth(year, month)
    THEN Raised("ValueError", "day is out of range for month")
    ELSE Returned(<<year, month, day, hour, minute>>)

\* a <= b on timestamps (field-wise lexicographic order)
RECURSIVE TupleLess(_, _)
TupleLess(a, b) ==
    IF a = <<>> THEN FALSE
    ELSE IF Head(a) # Head(b) THEN Head(a) < Head(b)
    ELSE TupleLess(Tail(a), Tail(b))
\* a comparison that lets equal timestamps through
DtStrictlyLess(a, b) == TupleLess(a, b)
\* a comparison of the dates alone, which no later time of the day passes
DtDateLessEq(a, b) == SubSeq(a, 1, 3) = SubSeq(b, 1, 3) \/ TupleLess(a, b)

\* a comparison that never finds a <= b
DtLessEqNever(a, b) == FALSE

DtLessEq(a, b) == a = b \/ TupleLess(a, b)

(***************************************************************************)
(* datetime.strptime(s, '%I:%M %p'): the format compiles to the regex      *)
(*   (1[0-2]|0[1-9]|[1-9]):([0-5]\d|\d)\s+(am|pm)   (case-insensitive)     *)
(* which must match the whole of s.                                        *)
(***************************************************************************)
IsHourToken(h) ==
    \/ Len(h) = 2 /\ CharAt(h, 1) = "1" /\ CharAt(h, 2) \in {"0", "1", "2"}
    \/ Len(h) = 2 /\ CharAt(h, 1) = "0" /\ IsDigit(CharAt(h, 2)) /\ CharAt(h, 2) # "0"
    \/ Len(h) = 1 /\ IsDigit(h) /\ h # "0"
IsMinuteToken(m) ==
    \/ Len(m) = 2 /\ CharAt(m, 1) \in {"0", "1", "2", "3", "4", "5"} /\ IsDigit(CharAt(m, 2))
    \/ Len(m) = 1 /\ IsDigit(m)
IsSpaces(w) == w # "" /\ \A i \in 1..Len(w) : CharAt(w, i) \in Whitespace

\* the <<length of the hour token, length of the minute token>> of the
\* matches of the regex against all of s (at most one)
TimeMatches(s) ==
    {ij \in {1, 2} \X {1, 2} :
        LET i == ij[1]
            j == ij[2]
        IN  /\ Len(s) >= i + j + 4
            /\ IsHourToken(SubSeq(s, 1, i))
            /\ CharAt(s, i + 1) = ":"
            /\ IsMinuteToken(SubSeq(s, i + 2, i + 1 + j))
            /\ IsSpaces(SubSeq(s, i + j + 2, Len(s) - 2))
            /\ Lower(SubSeq(s, Len(s) - 1, Len(s))) \in {"am", "pm"}}

\* value: <<hour, minute>> of the parsed time on the 24-hour clock
Strptime(s) ==
    IF TimeMatches(s) = {}
    THEN Raised("ValueError", "time data '" \o s \o "' does not match format '%I:%M %p'")
    ELSE LET ij == CHOOSE m \in TimeMatches(s) : TRUE
             h == PyInt(SubSeq(s, 1, ij[1]))
             mi == PyInt(SubSeq(s, ij[1] + 2, ij[1] + 1 + ij[2]))
             ampm == Lower(SubSeq(s, Len(s) - 1, Len(s)))
             hour == IF ampm = "am" THEN (IF h = 12 THEN 0 ELSE h)
                     ELSE (IF h # 12 THEN h + 12 ELSE h)
         IN  Returned(<<hour, mi>>)

(***************************************************************************)
(* parse_date_time(date_str, time_str)                                     *)
(***************************************************************************)
parse_date_time(date_str, time_str) ==
    LET date_parts == Split(date_str, "-")
    IN  IF Len(date_parts) # 3
        THEN Raised("ValueError", "Date must be in DD-MM-YYYY format")
        ELSE
        LET day == PyInt(date_parts[1])
            month == PyInt(date_parts[2])
            year == PyInt(date_parts[3])
            bad == CHOOSE k \in 1..4 :
                       /\ k < 4 => PyInt(date_parts[k]) = NotInt
                       /\ \A j \in 1..(k - 1) : PyInt(date_parts[j]) # NotInt
            time_obj == Strptime(Upper(Strip(time_str)))
        IN  IF bad < 4
            THEN Raised("ValueError",
                        "invalid literal for int() with base 10: '" \o date_parts[bad] \o "'")
            ELSE IF time_obj.exc # "none"
            THEN Raised("ValueError", "Time must be in HH:MM AM/PM format")
            ELSE PyDatetime(year, month, day, time_obj.value[1], time_obj.value[2])

(***************************************************************************)
(* Calendar gateway.  The disk holds token.pickle (token) and              *)
(* credentials.json (credentials_json).  token is                          *)
(*   "absent"  no file                                                     *)
(*   "valid"   a credential with creds.valid                               *)
(*   "expired" an expired credential that has a refresh token              *)
(*   "stale"   an invalid credential that cannot be refreshed              *)
(*   "corrupt" a file pickle.load fails on                                 *)
(* What the Google libraries and the network do is the environment's       *)
(* choice env: refresh, flow and build say whether creds.refresh, the      *)
(* installed-app flow and build() succeed, insert is the result of         *)
(* events().insert().execute().                                            *)
(***************************************************************************)
TokenStates == {"absent", "valid", "expired", "stale", "corrupt"}
InsertResults == {"ok", "invalid_grant", "error"}
Envs == [refresh : BOOLEAN, flow : BOOLEAN, build : BOOLEAN, insert : InsertResults]

\* str(e) of the exceptions the libraries raise
FlowErrorText == "(access_denied) Authorization was denied"
BuildErrorText == "unknown api name or version: calendar v3"
InsertErrorText(result) ==
    IF result = "invalid_grant"
    THEN "('invalid_grant: Token has been expired or revoked.', {'error': 'invalid_grant'})"
    ELSE "<HttpError 403 when requesting events returned \"Rate Limit Exceeded\">"

\* lines 17-34: the credential loaded from token.pickle ("none" for None)
\* and the token file it leaves behind
LoadCachedCreds(token, env) ==
    IF token = "absent" THEN [creds |-> "none", token |-> "absent"]
    ELSE IF token = "corrupt" THEN [creds |-> "none", token |-> "absent"]
    ELSE IF token = "valid" THEN [creds |-> "cached", token |-> token]
    ELSE IF token = "expired"
    THEN (IF env.refresh THEN [creds |-> "refreshed", token |-> token]
                         ELSE [creds |-> "none", token |-> "absent"])
    ELSE [creds |-> "none", token |-> "absent"]

\* an authenticate_google that starts the interactive flow before it looks
\* for credentials.json
authenticate_google_flow_first(token, credentials_json, env) ==
    LET loaded == LoadCachedCreds(token, env)
        fail(text, t, started) ==
            [exc |-> "Exception", msg |-> "Authentication failed: " \o text,
             creds |-> "none", token |-> t, flow |-> started]
        service(c, t, started) ==
            IF env.build
            THEN [exc |-> "none", msg |-> "", creds |-> c, token |-> t, flow |-> started]
            ELSE fail(BuildErrorText, t, started)
    IN  IF loaded.creds = "none"
        THEN IF ~env.flow
             THEN fail(FlowErrorText, loaded.token, TRUE)
             ELSE IF ~credentials_json
             THEN fail("credentials.json file not found. Please download it from Google Cloud Console.",
                       loaded.token, TRUE)
             ELSE service("fresh", "valid", TRUE)
        ELSE service(loaded.creds, loaded.token, FALSE)

\* authenticate_google(): exc/msg as for Raised, creds is the credential of
\* the returned service, token the token file afterwards, flow tells
\* whether the interactive flow was started
authenticate_google(token, credentials_json, env) ==
    LET loaded == LoadCachedCreds(token, env)
        fail(text, t, started) ==
            [exc |-> "Exception", msg |-> "Authentication failed: " \o text,
             creds |-> "none", token |-> t, flow |-> started]
        service(c, t, started) ==
            IF env.build
            THEN [exc |-> "none", msg |-> "", creds |-> c, token |-> t, flow |-> started]
            ELSE fail(BuildErrorText, t, started)
    IN  IF loaded.creds = "none"
        THEN IF ~credentials_json
             THEN fail("credentials.json file not found. Please download it from Google Cloud Console.",
                       loaded.token, FALSE)
             ELSE IF ~env.flow
             THEN fail(FlowErrorText, loaded.token, TRUE)
             ELSE service("fresh", "valid", TRUE)
        ELSE service(loaded.creds, loaded.token, FALSE)

\* a create_event that never removes token.pickle
create_event_keeps_cache(token, event_name, start_time, end_time, env) ==
    IF env.insert = "ok"
    THEN [exc |-> "none", msg |-> "", token |-> token,
          value |-> "Event \"" \o event_name \o "\" created successfully!"]
    ELSE LET e == InsertErrorText(env.insert)
             error_msg == "Failed to create event: " \o e
         IN  IF Contains(e, "invalid_grant")
             THEN [exc |-> "Exception", value |-> "", token |-> token,
                   msg |-> error_msg \o "\nPlease restart the application to re-authenticate."]
             ELSE [exc |-> "Exception", value |-> "", token |-> token, msg |-> error_msg]

\* create_event(service, event_name, start_time, end_time): value is the
\* returned text, token the token file afterwards
create_event(token, event_name, start_time, end_time, env) ==
    IF env.insert = "ok"
    THEN [exc |-> "none", msg |-> "", token |-> token,
          value |-> "Event \"" \o event_name \o "\" created successfully!"]
    ELSE LET e == InsertErrorText(env.insert)
             error_msg == "Failed to create event: " \o e
         IN  IF Contains(e, "invalid_grant")
             THEN [exc |-> "Exception", value |-> "", token |-> "absent",
                   msg |-> error_msg \o "\nPlease restart the application to re-authenticate."]
             ELSE [exc |-> "Exception", value |-> "", token |-> token, msg |-> error_msg]

(***************************************************************************)
(* Conversation state machine.                                             *)
(***************************************************************************)
IsUser(turn) == turn[1] = "User"

\* [msg for role, msg in history if role == "User"]
UserMessages(h) == LET users == SelectSeq(h, IsUser)
                   IN  [i \in 1..Len(users) |-> users[i][2]]

get_conversation_stage(h) == Len(UserMessages(h))

\* a pop that removes nothing
PopKeeps(h) == h

\* a pop that removes the first element
PopFirst(h) == SubSeq(h, 2, Len(h))

\* list.pop(): the list without its last element
Pop(h) == SubSeq(h, 1, Len(h) - 1)

\* a keyword list that lost its last entry
RestartKeywordsShort == {"restart", "start over"}

RestartKeywords == {"restart", "start over", "reset"}

\* lines 137-139: the stage-3 syntax check of the date
ValidDateSyntax(date_str) ==
    LET date_parts == Split(date_str, "-")
    IN  Len(date_parts) = 3 /\ \A i \in 1..3 : IsDigit(date_parts[i])

\* a step of conversational_flow: history is the list afterwards, exc the
\* exception that left the function ("none" when it returned), token the
\* token file afterwards, tag the branch taken, calls the gateway calls made
Step(h, t, tg, c) == [exc |-> "none", history |-> h, token |-> t, tag |-> tg, calls |-> c]

\* a gateway failure handled like a validation failure: the turn is popped
GatewayFailedPops(h1, msg, tok, calls) ==
    Step(Append(Pop(h1), <<"Bot", "Error: " \o msg>>), tok, "gateway_error", calls)

\* lines 176-177: the gateway raised msg; the end-time turn stays in h1
GatewayFailed(h1, msg, tok, calls) ==
    Step(Append(h1, <<"Bot", "Error: " \o msg>>), tok, "gateway_error", calls)

\* lines 178-180: the rejection of the end time, which pops it
InvalidEndTime(h1, msg, token) ==
    Step(Append(Pop(h1), <<"Bot", "Invalid time: " \o msg
             \o ". Please enter a valid end time in HH:MM AM/PM format.">>),
         token, "end_rejected", <<>>)

\* an exception other than ValueError leaves conversational_flow; line 118
\* has appended the turn to h1 by then
Escaped(h1, e, token) ==
    [exc |-> e, history |-> h1, token |-> token, tag |-> "raised", calls |-> <<>>]

\* the record of a gateway call in calls
AuthCall(auth) == [op |-> "authenticate_google", ok |-> auth.exc = "none", flow |-> auth.flow]
CreateCall(created, event_name, start_time, end_time) ==
    [op |-> "create_event", ok |-> created.exc = "none", name |-> event_name,
     start |-> start_time, end |-> end_time]

\* lines 173-177 after create_event returned or raised
EventResult(h1, event_name, start_time, end_time, auth, created) ==
    IF created.exc # "none"
    THEN GatewayFailed(h1, created.msg, created.token,
                       <<AuthCall(auth), CreateCall(created, event_name, start_time, end_time)>>)
    ELSE Step(h1 \o << <<"Bot", created.value>>,
                       <<"Bot", "Do you need to book any other appointments? (yes/no)">> >>,
              created.token, "created",
              <<AuthCall(auth), CreateCall(created, event_name, start_time, end_time)>>)

\* a stage 5 that pops the end time when authenticate_google raised
BookEventRetries(h1, event_name, start_time, end_time, auth, env) ==
    IF auth.exc # "none"
    THEN Step(Append(Pop(h1), <<"Bot", "Error: " \o auth.msg>>), auth.token, "gateway_error",
              <<AuthCall(auth)>>)
    ELSE EventResult(h1, event_name, start_time, end_time, auth,
                     create_event(auth.token, event_name, start_time, end_time, env))

\* lines 171-177 after authenticate_google returned or raised
BookEvent(h1, event_name, start_time, end_time, auth, env) ==
    IF auth.exc # "none"
    THEN GatewayFailed(h1, auth.msg, auth.token, <<AuthCall(auth)>>)
    ELSE EventResult(h1, event_name, start_time, end_time, auth,
                     create_event(auth.token, event_name, start_time, end_time, env))

\* lines 163-180 with both times parsed: start_time and end_time are what
\* parse_date_time gave, the start time first
StageFiveParsed(h1, event_name, start_time, end_time, token, credentials_json, env) ==
    IF start_time.exc = "ValueError" THEN InvalidEndTime(h1, start_time.msg, token)
    ELSE IF start_time.exc # "none" THEN Escaped(h1, start_time.exc, token)
    ELSE IF end_time.exc = "ValueError" THEN InvalidEndTime(h1, end_time.msg, token)
    ELSE IF end_time.exc # "none" THEN Escaped(h1, end_time.exc, token)
    ELSE IF DtLessEq(end_time.value, start_time.value)
    THEN InvalidEndTime(h1, "End time must be after start time", token)
    ELSE BookEvent(h1, event_name, start_time.value, end_time.value,
                   authenticate_google(token, credentials_json, env), env)

\* a stage 5 that reads the event name from the first User message
StageFiveShifted(h1, user_input, token, credentials_json, env) ==
    StageFiveParsed(h1, UserMessages(h1)[1],
                    parse_date_time(UserMessages(h1)[3], UserMessages(h1)[4]),
                    parse_date_time(UserMessages(h1)[3], user_input),
                    token, credentials_json, env)

\* lines 154-180: event_name, date_str and start_time_str are the second,
\* third and fourth User message
StageFive(h1, user_input, token, credentials_json, env) ==
    StageFiveParsed(h1, UserMessages(h1)[2],
                    parse_date_time(UserMessages(h1)[3], UserMessages(h1)[4]),
                    parse_date_time(UserMessages(h1)[3], user_input),
                    token, credentials_json, env)

\* a 'yes' branch that greets without clearing the history
StageSixYesKeeps(h1, user_input, token) ==
    IF Lower(user_input) = "yes"
    THEN Step(Append(h1, <<"Bot", "Hi! How may I assist you?">>), token, "yes", <<>>)
    ELSE IF Lower(user_input) = "no"
    THEN Step(Append(h1, <<"Bot", "Thank you! Have a nice day.">>), token, "no", <<>>)
    ELSE Step(Append(Pop(h1), <<"Bot", "Please answer with 'yes' or 'no'.">>),
              token, "yesno_rejected", <<>>)

\* an else branch that re-prompts without removing the answer
StageSixKeepsAnswer(h1, user_input, token) ==
    IF Lower(user_input) = "yes"
    THEN Step(<< <<"Bot", "Hi! How may I assist you?">> >>, token, "yes", <<>>)
    ELSE IF Lower(user_input) = "no"
    THEN Step(Append(h1, <<"Bot", "Thank you! Have a nice day.">>), token, "no", <<>>)
    ELSE Step(Append(h1, <<"Bot", "Please answer with 'yes' or 'no'.">>),
              token, "yesno_rejected", <<>>)

\* lines 182-190
StageSix(h1, user_input, token) ==
    IF Lower(user_input) = "yes"
    THEN Step(<< <<"Bot", "Hi! How may I assist you?">> >>, token, "yes", <<>>)
    ELSE IF Lower(user_input) = "no"
    THEN Step(Append(h1, <<"Bot", "Thank you! Have a nice day.">>), token, "no", <<>>)
    ELSE Step(Append(Pop(h1), <<"Bot", "Please answer with 'yes' or 'no'.">>),
              token, "yesno_rejected", <<>>)

conversational_flow(history, user_input, token, credentials_json, env) ==
    IF user_input = ""
    THEN Step(history, token, "empty", <<>>)
    ELSE IF Lower(user_input) \in RestartKeywords
    THEN Step(<< <<"Bot", "Conversation restarted. Hi! How may I assist you?">> >>,
              token, "restart", <<>>)
    ELSE
    LET h1 == Append(history, <<"User", user_input>>)
        stage == get_conversation_stage(h1)
    IN  IF stage = 1
        THEN IF Contains(Lower(user_input), "appointment") \/ Contains(Lower(user_input), "book")
             THEN Step(Append(h1, <<"Bot", "What is the purpose of the appointment?">>),
                       token, "intent_ok", <<>>)
             ELSE Step(Append(Pop(h1), <<"Bot",
                       "I can help you book an appointment. Please say 'Book an appointment' to start.">>),
                       token, "intent_rejected", <<>>)
        ELSE IF stage = 2
        THEN Step(Append(h1, <<"Bot", "Great! You want to create an event for '" \o user_input
                      \o "'. What is the date? (DD-MM-YYYY)">>), token, "name_ok", <<>>)
        ELSE IF stage = 3
        THEN IF ValidDateSyntax(user_input)
             THEN Step(Append(h1, <<"Bot", "What is the start time? (HH:MM AM/PM)">>),
                       token, "date_ok", <<>>)
             ELSE Step(Append(Pop(h1), <<"Bot",
                       "Invalid date format: Date must be in DD-MM-YYYY format. Please enter the date in DD-MM-YYYY format.">>),
                       token, "date_rejected", <<>>)
        ELSE IF stage = 4
        THEN IF Strptime(Upper(Strip(user_input))).exc = "none"
             THEN Step(Append(h1, <<"Bot", "What is the end time? (HH:MM AM/PM)">>),
                       token, "start_ok", <<>>)
             ELSE Step(Append(Pop(h1), <<"Bot",
                       "Invalid time format. Please enter the time in HH:MM AM/PM format (e.g., 02:30 PM).">>),
                       token, "start_rejected", <<>>)
        ELSE IF stage = 5
        THEN StageFive(h1, user_input, token, credentials_json, env)
        ELSE IF stage = 6
        THEN StageSix(h1, user_input, token)
        ELSE Step(h1, token, "no_branch", <<>>)

\* a handle_input that tests the text without stripping it
handle_input_unstripped(history, user_input, token, credentials_json, env) ==
    IF user_input = ""
    THEN Step(history, token, "blank", <<>>)
    ELSE conversational_flow(history, user_input, token, credentials_json, env)

\* handle_input(user_input, history), lines 219-223: the history it returns
handle_input(history, user_input, token, credentials_json, env) ==
    IF Strip(user_input) = ""
    THEN Step(history, token, "blank", <<>>)
    ELSE conversational_flow(history, user_input, token, credentials_json, env)

\* the list of gr.State([]), which no callback has filled
reset_conversation_empty == <<>>

\* reset_conversation(), lines 215-217
reset_conversation == << <<"Bot", "Hi! How may I assist you?">> >>

(***************************************************************************)
(* The program: the Gradio session holds history; handle_input runs on     *)
(* every submitted text, reset_conversation on page load and on the        *)
(* restart button.  last records the most recent callback: the stage it   *)
(* found, the branch it took (tag) and the gateway calls it made;          *)
(* gateway_calls counts the callbacks that reached the gateway since the   *)
(* history was last cleared.                                               *)
(***************************************************************************)
VARIABLES history, token, credentials_json, last, gateway_calls
vars == <<history, token, credentials_json, last, gateway_calls>>

\* texts a user submits
Inputs == {"", "  ", "restart", "Start Over", "RESET",
           "Book an appointment", "Dentist",
           "15-06-2024", "31-02-2024", "1-1-99999999999",
           "02:00 PM", " 3:00 pm ",
           "yes", "No"}

\* the texts explored as the answer to the purpose question, which accepts
\* every text as the event name: an ordinary name and one that reads as a
\* time, besides the blank texts and the restart keywords
Names == {"Dentist", "02:00 PM"}
Submitted(h) ==
    IF get_conversation_stage(h) = 1
    THEN {i \in Inputs : Strip(i) = "" \/ Lower(i) \in RestartKeywords \/ i \in Names}
    ELSE Inputs

\* the environment's choices matter only to a call that reaches the
\* gateway; for every other call one choice stands for all of them
QuietEnv == [refresh |-> TRUE, flow |-> TRUE, build |-> TRUE, insert |-> "ok"]
EnvsAt(h, user_input, tok, cj) ==
    IF conversational_flow(h, user_input, tok, cj, QuietEnv).calls = <<>> THEN {QuietEnv} ELSE Envs

\* the number of re-prompts in h: a rejected input is popped, so its
\* re-prompt is a Bot turn that directly follows a Bot turn (the only other
\* such turn is the yes/no question that follows the success message)
Rejections(h) ==
    Cardinality({i \in 1..(Len(h) - 1) :
        /\ h[i][1] = "Bot" /\ h[i + 1][1] = "Bot"
        /\ h[i + 1][2] # "Do you need to book any other appointments? (yes/no)"})

Init ==
    /\ history = reset_conversation
    /\ token = "absent"
    /\ credentials_json \in BOOLEAN
    /\ last = [stage |-> 0, tag |-> "reset", calls |-> <<>>]
    /\ gateway_calls = 0

\* the branches that clear the history (history.clear(), lines 113 and 184)
ClearingTags == {"restart", "yes"}

\* the send button and the text box, lines 226-227.  When
\* conversational_flow raises, Gradio keeps the session's list object,
\* which line 118 has already appended to, or its own copy of the list
\* from before the call, depending on how it stores gr.State.
HandleInput(user_input) ==
    \E env \in EnvsAt(history, user_input, token, credentials_json) :
    \E r \in {handle_input(history, user_input, token, credentials_json, env)} :
        /\ get_conversation_stage(r.history) <= MaxStage
        /\ Rejections(r.history) <= MaxRejections
        /\ history' \in (IF r.exc = "none" THEN {r.history} ELSE {r.history, history})
        /\ token' = r.token
        /\ last' = [stage |-> get_conversation_stage(history), tag |-> r.tag,
                    calls |-> r.calls]
        /\ gateway_calls' = (IF r.tag \in ClearingTags THEN 0
                             ELSE IF r.calls # <<>> THEN gateway_calls + 1
                             ELSE gateway_calls)
        /\ gateway_calls' <= MaxGatewayCalls
        /\ UNCHANGED credentials_json

\* the restart button, line 228
ResetConversation ==
    /\ history' = reset_conversation
    /\ last' = [stage |-> get_conversation_stage(history), tag |-> "reset", calls |-> <<>>]
    /\ gateway_calls' = 0
    /\ UNCHANGED <<token, credentials_json>>

\* the cached credential passes its expiry time
TokenExpires ==
    /\ token = "valid"
    /\ token' = "expired"
    /\ UNCHANGED <<history, credentials_json, last, gateway_calls>>

Next ==
    \/ \E user_input \in Submitted(history) : HandleInput(user_input)
    \/ ResetConversation
    \/ TokenExpires

Spec == Init /\ [][Next]_vars

(***************************************************************************)
(* Properties.  The texts of Inputs by what the user means with them;      *)
(* these sets are written out, not computed with the operators above.      *)
(***************************************************************************)
ResetTexts == {"restart", "Start Over", "RESET"}
BlankTexts == {"", "  "}
ContentTexts == Inputs \ (ResetTexts \cup BlankTexts)
YesTexts == {"yes"}
NoTexts == {"No"}

\* the results conversational_flow can return for user_input in this state
Outcomes(user_input) ==
    {conversational_flow(history, user_input, token, credentials_json, env) :
        env \in EnvsAt(history, user_input, token, credentials_json)}

LastTurn(h) == h[Len(h)]
\* the number of User turns of h, counted turn by turn
UserTurns(h) == Cardinality({i \in 1..Len(h) : h[i][1] = "User"})
RestartedGreeting == << <<"Bot", "Conversation restarted. Hi! How may I assist you?">> >>

\* C1: from every reachable history, at any stage, every text that equals
\* 'restart', 'start over' or 'reset' up to case makes conversational_flow
\* return exactly the one-turn history [(Bot, 'Conversation restarted. Hi!
\* How may I assist you?')], whose stage is 0.
C1_RestartYieldsGreeting ==
    \A inp \in ResetTexts : \A r \in Outcomes(inp) :
        /\ r.exc = "none"
        /\ r.history = RestartedGreeting
        /\ get_conversation_stage(r.history) = 0

\* C1 happens: a restart keyword was submitted after the 'no' of stage 6
C1_Witness ==
    /\ last.tag = "restart"
    /\ last.stage = 6
    /\ history = RestartedGreeting

\* the branches of conversational_flow that reject the input, with the
\* number of User turns each of them is entered with
RejectedAt == [intent_rejected |-> 0, date_rejected |-> 2, start_rejected |-> 3,
               end_rejected |-> 4, yesno_rejected |-> 5]
RejectedTags == DOMAIN RejectedAt

\* C2: whenever conversational_flow rejects an input (bad intent at stage 1,
\* bad date at stage 3, bad start time at stage 4, bad or non-later end time
\* at stage 5, neither yes nor no at stage 6) the number of User turns after
\* the call equals the number before it: the stage, which is that number, is
\* rolled back.
C2_RollbackOnRejection ==
    /\ get_conversation_stage(history) = UserTurns(history)
    /\ last.tag \in RejectedTags =>
           /\ last.stage = RejectedAt[last.tag]
           /\ UserTurns(history) = last.stage

\* C2 happens: a date was rejected and the stage is still 2
C2_Witness ==
    /\ last.tag = "date_rejected"
    /\ last.stage = 2
    /\ get_conversation_stage(history) = 2

ThankYou == <<"Bot", "Thank you! Have a nice day.">>

\* C3: after 'no' was accepted at stage 6 (the thank-you turn is the last
\* turn), every further input that is no restart keyword leaves the number
\* of User turns at 6.
C3_IdleAfterNo ==
    (get_conversation_stage(history) = 6 /\ LastTurn(history) = ThankYou) =>
        \A inp \in ContentTexts : \A r \in Outcomes(inp) :
            get_conversation_stage(r.history) = 6

\* C4: every call of conversational_flow with a non-empty input that returns
\* leaves a Bot turn as the last turn of the history: no input stays
\* unanswered.
C4_EveryInputAnswered ==
    \A inp \in Inputs \ BlankTexts : \A r \in Outcomes(inp) :
        r.exc = "none" => LastTurn(r.history)[1] = "Bot"


(***************************************************************************)
(* What the date and time texts mean, written out by hand.                 *)
(***************************************************************************)
\* the valid 12-hour time texts of Inputs and their <<hour, minute>>
ClockFields == (("02:00 PM" :> <<14, 0>>) @@ (" 3:00 pm " :> <<15, 0>>))
TimeTexts == DOMAIN ClockFields
Clock(t) == ClockFields[t][1] * 60 + ClockFields[t][2]

\* date texts of three integer tokens that name a day of the calendar, with
\* their <<year, month, day>>
RealDateFields ==
    ("15-06-2024" :> <<2024, 6, 15>>) @@ ("29-02-2024" :> <<2024, 2, 29>>) @@
    ("1-1-1" :> <<1, 1, 1>>) @@ ("31-12-9999" :> <<9999, 12, 31>>) @@
    (" 5 - 06 -2024" :> <<2024, 6, 5>>)
RealDates == DOMAIN RealDateFields
\* date texts of three integer tokens that name no day of the calendar
UnrealDates == {"31-02-2024", "29-02-2023", "31-04-2024", "0-06-2024", "15-13-2024",
                "15-06-0", "15-06-10000"}
\* date texts with a token beyond the C int range
HugeDates == {"1-1-99999999999"}
ThreeTokenDates == RealDates \cup UnrealDates \cup HugeDates

\* C5: at stage 5, whenever the end time is not later than the start time
\* (both parsed on the booking's date), the input is rejected: the end-time
\* User turn is popped, a Bot turn saying 'End time must be after start time'
\* is appended, the history has 4 User turns again and the gateway is not
\* called.
C5_EndNotAfterStartRejected ==
    get_conversation_stage(history) = 4 =>
        LET users == UserMessages(history)
        IN  \A inp \in TimeTexts :
                (/\ users[3] \in RealDates
                 /\ users[4] \in TimeTexts
                 /\ Clock(inp) <= Clock(users[4]))
                => \A r \in Outcomes(inp) :
                       /\ r.exc = "none"
                       /\ Len(r.history) = Len(history) + 1
                       /\ SubSeq(r.history, 1, Len(history)) = history
                       /\ LastTurn(r.history)[1] = "Bot"
                       /\ Contains(LastTurn(r.history)[2], "End time must be after start time")
                       /\ UserTurns(r.history) = 4
                       /\ r.calls = <<>>
                       /\ r.token = token

\* C5 happens: an end time equal to or before the start time was rejected
C5_Witness ==
    /\ last.tag = "end_rejected"
    /\ last.stage = 4
    /\ UserTurns(history) = 4
    /\ Contains(LastTurn(history)[2], "End time must be after start time")
    /\ last.calls = <<>>

\* what parse_date_time does with a date of three integer tokens and a
\* valid time: the timestamp of the fields for a day of the calendar, an
\* exception for any other
ParsesByCalendar(d, t) ==
    IF d \in RealDates
    THEN parse_date_time(d, t) = Returned(RealDateFields[d] \o ClockFields[t])
    ELSE IF d \in HugeDates
    THEN parse_date_time(d, t).exc = "OverflowError"
    ELSE parse_date_time(d, t).exc = "ValueError"

\* C6 as stated: parse_date_time does no range validation; for the date the
\* user gave (three hyphen-separated integer tokens, calendar-invalid ones
\* such as 31-02-2024 included) and every valid 12-hour time it returns a
\* timestamp and raises nothing.
C6_NoRangeValidation ==
    get_conversation_stage(history) = 4 =>
        \A t \in TimeTexts :
            /\ UserMessages(history)[3] \in ThreeTokenDates
            /\ parse_date_time(UserMessages(history)[3], t).exc = "none"

\* C6 as amended: for a date of three hyphen-separated integer tokens that
\* names a day of the calendar (year 1..9999) and a valid 12-hour time,
\* parse_date_time returns the timestamp with those day/month/year fields;
\* for a calendar-invalid date such as 31-02-2024 it raises ValueError (and
\* OverflowError for a token beyond the C int range): datetime() validates
\* the ranges.  Checked on the date the user gave and, once an event has
\* been created, on all of ThreeTokenDates.
C6_RealDatesParse ==
    /\ get_conversation_stage(history) = 4 =>
           \A t \in TimeTexts :
               /\ UserMessages(history)[3] \in ThreeTokenDates
               /\ ParsesByCalendar(UserMessages(history)[3], t)
    /\ last.tag = "created" =>
           \A d \in ThreeTokenDates, t \in TimeTexts : ParsesByCalendar(d, t)

\* C6 happens: both timestamps were parsed and passed to create_event
C6_Witness ==
    /\ last.tag = "created"
    /\ Len(last.calls) = 2
    /\ last.calls[2].start = <<2024, 6, 15, 14, 0>>
    /\ last.calls[2].end = <<2024, 6, 15, 15, 0>>

BookAnother == <<"Bot", "Do you need to book any other appointments? (yes/no)">>

\* the gateway succeeds for the choice env of the environment
GatewayWorks(env) ==
    /\ authenticate_google(token, credentials_json, env).exc = "none"
    /\ env.insert = "ok"

\* what C7 promises of the history r.history that answers the end time inp
Booked(r, inp) ==
    /\ r.exc = "none"
    /\ Len(r.history) = Len(history) + 3
    /\ SubSeq(r.history, 1, Len(history) + 1) = Append(history, <<"User", inp>>)
    /\ UserTurns(r.history) = 5
    /\ r.history[Len(r.history) - 1][1] = "Bot"
    /\ Contains(r.history[Len(r.history) - 1][2], "created successfully")
    /\ LastTurn(r.history) = BookAnother

\* C7 as stated: after an intent, an event name, a syntactically valid date
\* and a valid start time, every valid later end time ends, when the gateway
\* succeeds, with 5 User turns, a Bot turn containing 'created successfully'
\* and the Bot question 'Do you need to book any other appointments?
\* (yes/no)'.
C7_SyntacticDateBooks ==
    get_conversation_stage(history) = 4 =>
        LET users == UserMessages(history)
        IN  \A inp \in TimeTexts :
                (users[4] \in TimeTexts /\ Clock(inp) > Clock(users[4]))
                => \A env \in Envs :
                       GatewayWorks(env) =>
                           Booked(conversational_flow(history, inp, token, credentials_json, env), inp)

\* C7 as amended: the same, for a date that names a day of the calendar
\* (DD-MM-YYYY with year 1..9999).
C7_RealDateBooks ==
    get_conversation_stage(history) = 4 =>
        LET users == UserMessages(history)
        IN  \A inp \in TimeTexts :
                (/\ users[3] \in RealDates
                 /\ users[4] \in TimeTexts
                 /\ Clock(inp) > Clock(users[4]))
                => \A env \in Envs :
                       GatewayWorks(env) =>
                           Booked(conversational_flow(history, inp, token, credentials_json, env), inp)

\* C7 happens: the five inputs were given to the greeting, none was rejected
\* and the event was created
C7_Witness ==
    /\ last.tag = "created"
    /\ history[1] = <<"Bot", "Hi! How may I assist you?">>
    /\ Len(history) = 12
    /\ UserTurns(history) = 5
    /\ Contains(history[11][2], "created successfully")
    /\ LastTurn(history) = BookAnother

\* the texts of the errors the gateway raises from
GatewayErrorTexts ==
    {"credentials.json file not found", FlowErrorText, BuildErrorText,
     InsertErrorText("invalid_grant"), InsertErrorText("error")}

GatewayJustFailed == \E i \in 1..Len(last.calls) : ~last.calls[i].ok

YesNoPrompt == <<"Bot", "Please answer with 'yes' or 'no'.">>

\* C8: when authenticate_google or create_event raises at stage 5, the
\* end-time User turn is kept, one Bot turn with the gateway's error text
\* follows it, the history has 5 User turns (no rollback to stage 4), and
\* the next input that is no restart keyword is taken as the yes/no answer
\* of stage 6, never as a new end time: the gateway is not called again.
C8_GatewayFailureKeepsTurn ==
    GatewayJustFailed =>
        /\ last.stage = 4
        /\ UserTurns(history) = 5
        /\ history[Len(history) - 1][1] = "User"
        /\ history[Len(history) - 1][2] = UserMessages(history)[5]
        /\ history[Len(history) - 2][1] = "Bot"
        /\ LastTurn(history)[1] = "Bot"
        /\ SubSeq(LastTurn(history)[2], 1, 7) = "Error: "
        /\ \E e \in GatewayErrorTexts : Contains(LastTurn(history)[2], e)
        /\ \A inp \in ContentTexts : \A r \in Outcomes(inp) :
               /\ r.tag \in {"yes", "no", "yesno_rejected"}
               /\ r.calls = <<>>
               /\ inp \in TimeTexts => r.history = Append(history, YesNoPrompt)

\* C8 happens: create_event raised for a booking whose end time was accepted
C8_Witness ==
    /\ last.tag = "gateway_error"
    /\ Len(last.calls) = 2
    /\ ~last.calls[2].ok
    /\ UserTurns(history) = 5
    /\ history[Len(history) - 1] = <<"User", " 3:00 pm ">>

\* C9 as stated: at stage 6, 'yes' yields the same history as a restart
\* keyword, turn for turn and text for text.
C9_YesSameAsRestart ==
    get_conversation_stage(history) = 5 =>
        \A y \in YesTexts, k \in ResetTexts : \A ry \in Outcomes(y), rk \in Outcomes(k) :
            ry.history = rk.history

\* C9 as amended: at stage 6, 'yes' performs a full reset like a restart
\* keyword: both leave a single Bot turn and no User turn (stage 0).  The
\* turn after 'yes' is the initial greeting 'Hi! How may I assist you?' (the
\* history of reset_conversation); the turn after a restart keyword is
\* 'Conversation restarted. ' followed by that greeting.
C9_YesResetsToGreeting ==
    get_conversation_stage(history) = 5 =>
        \A y \in YesTexts, k \in ResetTexts : \A ry \in Outcomes(y), rk \in Outcomes(k) :
            /\ ry.history = << <<"Bot", "Hi! How may I assist you?">> >>
            /\ ry.history = reset_conversation
            /\ UserTurns(ry.history) = 0
            /\ UserTurns(rk.history) = 0
            /\ Len(rk.history) = 1
            /\ rk.history[1] = <<"Bot", "Conversation restarted. " \o ry.history[1][2]>>

\* C9 happens: 'yes' was answered after a created event
C9_Witness ==
    /\ last.tag = "yes"
    /\ last.stage = 5
    /\ history = << <<"Bot", "Hi! How may I assist you?">> >>

\* C10: at stage 6 (5 User turns) every input other than 'yes', 'no' (in
\* any case) and a restart keyword is rejected: its User turn is popped, the
\* Bot turn 'Please answer with 'yes' or 'no'.' is appended and the history
\* still has 5 User turns, so the next input is taken as the yes/no answer
\* again.
C10_OtherAnswerRejected ==
    get_conversation_stage(history) = 5 =>
        \A inp \in ContentTexts \ (YesTexts \cup NoTexts) : \A r \in Outcomes(inp) :
            /\ r.exc = "none"
            /\ r.history = Append(history, YesNoPrompt)
            /\ UserTurns(r.history) = 5
            /\ r.calls = <<>>

\* C10 happens: an answer that is neither yes nor no was rejected
C10_Witness ==
    /\ last.tag = "yesno_rejected"
    /\ last.stage = 5
    /\ UserTurns(history) = 5
    /\ LastTurn(history) = YesNoPrompt

\* the texts of the two greeting turns
Greetings == {"Hi! How may I assist you?", "Conversation restarted. Hi! How may I assist you?"}
\* the steps that reset the conversation: a restart keyword, 'yes' at stage
\* 6 and the restart button
ResetTags == {"restart", "yes", "reset"}

\* C11: in every reachable state the history is non-empty and its first turn
\* is a Bot turn with a greeting text; right after a reset (restart keyword,
\* 'yes' at stage 6, restart button) the history is exactly one Bot turn and
\* holds no User turn.
C11_StartsWithGreeting ==
    /\ Len(history) >= 1
    /\ history[1][1] = "Bot"
    /\ history[1][2] \in Greetings
    /\ last.tag \in ResetTags =>
           /\ Len(history) = 1
           /\ UserTurns(history) = 0

\* C11 happens: the restart button was pressed while the end time was
\* awaited
C11_Witness ==
    /\ last.tag = "reset"
    /\ last.stage = 4
    /\ history = << <<"Bot", "Hi! How may I assist you?">> >>

\* an environment in which every library call fails
HostileEnv == [refresh |-> FALSE, flow |-> FALSE, build |-> FALSE, insert |-> "invalid_grant"]

\* C12: in every reachable state, handle_input called with an empty text or
\* a text of whitespace only returns the history it was given, with no turn
\* added or removed, raises nothing, calls no gateway function and leaves
\* the token file alone, whether the libraries would succeed or fail.
C12_BlankIsNoOp ==
    \A inp \in BlankTexts : \A env \in {QuietEnv, HostileEnv} :
        \E r \in {handle_input(history, inp, token, credentials_json, env)} :
            /\ r.exc = "none"
            /\ r.history = history
            /\ r.calls = <<>>
            /\ r.token = token

\* C12 happens: a blank text was submitted while the end time was awaited
C12_Witness ==
    /\ last.tag = "blank"
    /\ last.stage = 4
    /\ UserTurns(history) = 4
    /\ LastTurn(history) = <<"Bot", "What is the end time? (HH:MM AM/PM)">>
    /\ last.calls = <<>>

\* C13: after every successful authenticate_google the token file holds the
\* credential of the returned service: a valid one, also when the credential
\* loaded from the file was expired and creds.refresh() renewed it.
C13_RefreshedCredentialPersisted ==
    \A env \in Envs :
        \E a \in {authenticate_google(token, credentials_json, env)} :
            a.exc = "none" => a.token = "valid"

\* the start and end of the event of the examples below
ExampleStart == <<2024, 6, 15, 14, 0>>
ExampleEnd == <<2024, 6, 15, 15, 0>>

\* C14: when create_event raises with a message containing 'invalid_grant',
\* token.pickle does not exist afterwards; when it raises with another
\* message or returns, the token file is as it was before the call.  Checked
\* on the step just taken (after an invalid_grant error the file is gone,
\* after a created event it exists) and, whenever the gateway has just been
\* called, for every state of the token file and every environment.
C14_InvalidGrantDeletesCache ==
    /\ last.calls # <<>> =>
       \A t \in TokenStates, env \in Envs :
           \E c \in {create_event(t, "Dentist", ExampleStart, ExampleEnd, env)} :
               IF c.exc # "none" /\ Contains(c.msg, "invalid_grant")
               THEN c.token = "absent"
               ELSE c.token = t
    /\ (last.tag = "gateway_error" /\ Contains(LastTurn(history)[2], "invalid_grant")) =>
           token = "absent"
    /\ last.tag = "created" => token \in {"valid", "expired"}

\* C14 happens: authenticate_google returned a service, create_event raised
\* invalid_grant and the token file is gone
C14_Witness ==
    /\ last.tag = "gateway_error"
    /\ Len(last.calls) = 2
    /\ last.calls[1].ok
    /\ ~last.calls[2].ok
    /\ Contains(LastTurn(history)[2], "invalid_grant")
    /\ token = "absent"

\* the token file holds a credential authenticate_google can use
UsableCache(t, env) == t = "valid" \/ (t = "expired" /\ env.refresh)

\* C15: without a usable cached credential and without credentials.json,
\* authenticate_google raises the 'credentials.json file not found' error,
\* has not started the interactive flow and leaves no token file; the
\* interactive flow is started only when credentials.json exists.  Checked
\* on the step just taken and, whenever the gateway has just been called,
\* for every state of the token file and every environment.
C15_MissingFileFailsBeforeFlow ==
    /\ last.calls # <<>> =>
       \A t \in TokenStates, env \in Envs :
           \E a \in {authenticate_google(t, credentials_json, env)} :
               /\ a.flow => credentials_json
               /\ (~UsableCache(t, env) /\ ~credentials_json) =>
                      /\ a.exc = "Exception"
                      /\ Contains(a.msg, "credentials.json file not found")
                      /\ ~a.flow
                      /\ a.token = "absent"
    /\ (last.calls # <<>> /\ last.calls[1].flow) => credentials_json
    /\ (last.calls # <<>> /\ ~credentials_json) =>
           /\ last.calls = <<[op |-> "authenticate_google", ok |-> FALSE, flow |-> FALSE]>>
           /\ token = "absent"

\* C15 happens: the gateway was reached without token.pickle and without
\* credentials.json
C15_Witness ==
    /\ ~credentials_json
    /\ last.tag = "gateway_error"
    /\ last.calls = <<[op |-> "authenticate_google", ok |-> FALSE, flow |-> FALSE]>>
    /\ Contains(LastTurn(history)[2], "credentials.json file not found")
    /\ token = "absent"

(***************************************************************************)
(* The texts of Inputs by the check each of them passes, written out by    *)
(* hand.                                                                   *)
(***************************************************************************)
\* texts that contain 'appointment' or 'book'
IntentTexts == {"Book an appointment"}
\* texts of three digit tokens joined by hyphens
SyntacticDates == {"15-06-2024", "31-02-2024", "1-1-99999999999"}

\* the User messages users sit where stage 5 reads them
AcceptedPositions(users) ==
    /\ Len(users) >= 1 => users[1] \in IntentTexts
    /\ Len(users) >= 2 => users[2] \in Names
    /\ Len(users) >= 3 => users[3] \in SyntacticDates
    /\ Len(users) >= 4 => users[4] \in TimeTexts

\* the create_event call c was made with the name, date, start and end of users
CalledWith(c, users) ==
    /\ Len(users) = 5
    /\ users[3] \in RealDates
    /\ users[5] \in TimeTexts
    /\ c.name = users[2]
    /\ c.start = RealDateFields[users[3]] \o ClockFields[users[4]]
    /\ c.end = RealDateFields[users[3]] \o ClockFields[users[5]]

\* C16: in every reachable history the 1st User turn is a text that passes
\* the intent check, the 2nd the event name given at stage 2, the 3rd a text
\* that passes the date syntax check of stage 3 and the 4th one that passes
\* the time check of stage 4; when create_event has just been called, its
\* name, start and end are the 2nd User turn and the 3rd User turn combined
\* with the 4th and with the 5th.  A rejected input holds no position.
C16_PositionsHoldAcceptedInputs ==
    /\ AcceptedPositions(UserMessages(history))
    /\ Len(last.calls) = 2 => CalledWith(last.calls[2], UserMessages(history))

\* C16 happens: an event was created in a conversation in which an input
\* had been rejected, under a name that reads as a time
C16_Witness ==
    /\ last.tag = "created"
    /\ Rejections(history) = 1
    /\ Len(last.calls) = 2
    /\ last.calls[2].name = "02:00 PM"
    /\ UserMessages(history)[2] = "02:00 PM"
    /\ UserMessages(history)[4] = "02:00 PM"

\* C17: between two resets of the conversation the gateway is reached by at
\* most one input, whether its call succeeded or failed: once it has been
\* reached the history holds at least 5 User turns, so no later input is
\* evaluated at stage 5 until a restart keyword, 'yes' at stage 6 or the
\* restart button clears the history.
C17_GatewayAtMostOnce ==
    /\ gateway_calls <= 1
    /\ last.calls # <<>> => gateway_calls = 1
    /\ gateway_calls >= 1 => UserTurns(history) >= 5

\* C17 happens: after a gateway failure another text was given and was taken
\* as the yes/no answer; the gateway was not called again
C17_Witness ==
    /\ gateway_calls = 1
    /\ last.tag = "yesno_rejected"
    /\ last.calls = <<>>
    /\ SubSeq(history[Len(history) - 1][2], 1, 7) = "Error: "
    /\ LastTurn(history) = YesNoPrompt

\* the branches of stage 5 that reach the gateway
GatewayTags == {"created", "gateway_error"}

\* C18: authenticate_google and create_event are called only by the call
\* that finds 4 User turns and appends the 5th, and only when the date is a
\* day of the calendar and the start and end time are valid times with the
\* end later than the start; create_event is called only after
\* authenticate_google returned.  No other stage, no restart keyword, no
\* blank input and no rejected input reaches the gateway.
C18_GatewayOnlyAtStageFive ==
    /\ last.tag \notin GatewayTags => last.calls = <<>>
    /\ last.calls # <<>> =>
           /\ last.tag \in GatewayTags
           /\ last.stage = 4
           /\ UserTurns(history) = 5
           /\ UserMessages(history)[3] \in RealDates
           /\ UserMessages(history)[4] \in TimeTexts
           /\ UserMessages(history)[5] \in TimeTexts
           /\ Clock(UserMessages(history)[5]) > Clock(UserMessages(history)[4])
           /\ last.calls[1].op = "authenticate_google"
           /\ Len(last.calls) = 2 => (last.calls[1].ok /\ last.calls[2].op = "create_event")

\* C18 happens: the interactive flow ran and create_event was called for an
\* end time later than the start time
C18_Witness ==
    /\ last.stage = 4
    /\ Len(last.calls) = 2
    /\ last.calls[1].flow
    /\ UserMessages(history)[4] = "02:00 PM"
    /\ UserMessages(history)[5] = " 3:00 pm "

\* end times to try: those of Inputs and the last minute of the day
EndTimes == TimeTexts \cup {"11:59 PM"}

\* C19: in every reachable history with 4 User turns there is an end time
\* that is accepted at stage 5 and reaches the gateway.
C19_EndTimeAlwaysPossible ==
    get_conversation_stage(history) = 4 =>
        \E inp \in EndTimes : \E r \in Outcomes(inp) : r.calls # <<>>

\* C20: every step that rejects an input leaves the history it found with
\* exactly one Bot turn appended: the turn popped is the User turn the same
\* call appended, and no earlier turn is removed, moved or changed.
C20_RejectionFrame ==
    [][(~TokenExpires /\ last'.tag \in RejectedTags) =>
           /\ Len(history') = Len(history) + 1
           /\ SubSeq(history', 1, Len(history)) = history
           /\ LastTurn(history')[1] = "Bot"
           /\ UserTurns(history') = UserTurns(history)]_vars

\* C20 happens: a start time was rejected; the date and its prompt are still
\* in place before the re-prompt
C20_Witness ==
    /\ last.tag = "start_rejected"
    /\ UserTurns(history) = 3
    /\ history[Len(history) - 2] = <<"User", "15-06-2024">>
    /\ history[Len(history) - 1] = <<"Bot", "What is the start time? (HH:MM AM/PM)">>
    /\ SubSeq(LastTurn(history)[2], 1, 20) = "Invalid time format."

====
